---- MODULE Spec2Model ----
(***************************************************************************)
(* State-machine model of the share-chain DAG view (DagVisualization) of   *)
(* the p2pool dashboard and of the fetchChainDag client it calls.          *)
(*                                                                         *)
(* Numbers: zoom is kept in tenths (zoom = 10 is the factor 1.0), so that  *)
(* the 0.1 steps and the 0.2 / 3.0 clamps are exact integers; every other  *)
(* coordinate is an integer number of pixels.                              *)
(***************************************************************************)
EXTENDS Integers, Sequences, FiniteSets, TLC

(***************************************************************************)
(* The state of the component.                                             *)
(***************************************************************************)
VARIABLES
    dagData, isLoading, error, selectedNode, zoom, limit, nodePositions,
    autoRefresh, panOffset, isPanning, lastMousePos, canvasBounds,
    mounted,        \* the view is in the tree
    interval,       \* the limit bound in the setInterval callback, or NoTimer
    inflight,       \* requests sent and not yet settled
    issued,         \* number of requests sent so far
    pointer,        \* history: phase of the gesture, its positions and the
                    \* selection before the last click
    settled         \* history: whether the last step settled a request or
                    \* reset the view, and how

\* The state of the database browser.
VARIABLES
    columnFamilies, selectedCF, dbEntries, stats, page, totalEntries, hasMore,
    dbIsLoading,    \* isLoading of the database browser
    dbInflight,     \* calls of its loaders that are at an await
    dbIssued        \* number of loadData calls so far

(***************************************************************************)
(* Bounds of the exploration.                                              *)
(***************************************************************************)
MaxFetches == 3
MaxNodes == 3
MaxHeight == 2
MaxPan == 10
MaxEdges == 2
MaxLoads == 3

(***************************************************************************)
(* Program constants.                                                      *)
(***************************************************************************)
horizontalSpacing == 220
verticalSpacing == 120
InitialLimit == 50
DragThreshold == 5
CanvasHeight == 600
TopMargin == 80
ZoomInitial == 10
ZoomStep == 1
ZoomMin == 2
ZoomMax == 30
NoTimer == 0
RectLeft == 0
RectTop == 0
HalfWidth == 400
Infinity == 1000000000

LimitOptions == {20, 50, 100, 200}

ErrorMessage == "Failed to fetch DAG data"
NoError == "null"

(***************************************************************************)
(* Values.                                                                 *)
(***************************************************************************)
Null == [kind |-> "null"]
NotJson == [kind |-> "not_json"]
OtherJson == [kind |-> "json_object"]

\* useState<string | null>(null) of selectedCF: no column family selected.
NoCF == "null"

Hashes == {"a", "b", "c", "d"}

DagNode(h, ht, main, uncle) ==
    [hash |-> h, height |-> ht, is_main_chain |-> main, is_uncle |-> uncle]

DagEdge(f, t, ty) == [from |-> f, to |-> t, edge_type |-> ty]

DagResponse(nodes, edges, tip) ==
    [kind |-> "dag", nodes |-> nodes, edges |-> edges, tip_hash |-> tip]

Point(px, py) == [x |-> px, y |-> py]

Min(a, b) == IF a <= b THEN a ELSE b
Max(a, b) == IF a >= b THEN a ELSE b
Abs(a) == IF a < 0 THEN -a ELSE a

(***************************************************************************)
(* The layout effect: grouping by height, descending sort of the distinct  *)
(* heights, centred rows, bounding box.                                    *)
(***************************************************************************)
\* Keys of nodesByHeight in insertion order (first occurrence of a height).
RECURSIVE HeightKeys(_)
HeightKeys(nodes) ==
    IF nodes = << >> THEN << >>
    ELSE LET front == HeightKeys(SubSeq(nodes, 1, Len(nodes) - 1))
             h == nodes[Len(nodes)].height
         IN  IF \E i \in 1..Len(front) : front[i] = h THEN front
             ELSE Append(front, h)

\* Mutant of NodesAtHeight: the bucket is replaced instead of extended.
LastNodeAtHeight(nodes, h) ==
    LET all == SelectSeq(nodes, LAMBDA n : n.height = h)
    IN  IF all = << >> THEN << >> ELSE << all[Len(all)] >>

\* Mutant of NodesAtHeight: each node is put in front of its bucket (unshift
\* instead of push), so that a row runs against the fetch order.
NodesAtHeightNewestFirst(nodes, h) ==
    LET all == SelectSeq(nodes, LAMBDA n : n.height = h)
    IN  [i \in 1..Len(all) |-> all[Len(all) + 1 - i]]

\* nodesByHeight.get(height): the nodes of that height, in fetch order.
NodesAtHeight(nodes, h) == SelectSeq(nodes, LAMBDA n : n.height = h)

\* Mutant of CompareDesc: the operands swapped (ascending order).
CompareAsc(a, b) == a - b

\* The comparator of the sort: (a, b) => b - a.
CompareDesc(a, b) == b - a

\* Array.prototype.sort under a comparator, as a stable insertion sort: s[1]
\* stays in front of v unless the comparator puts it after v.
RECURSIVE InsertSorted(_, _)
InsertSorted(s, v) ==
    IF s = << >> THEN << v >>
    ELSE IF CompareDesc(s[1], v) <= 0 THEN << s[1] >> \o InsertSorted(Tail(s), v)
         ELSE << v >> \o s

RECURSIVE SortBy(_)
SortBy(s) ==
    IF s = << >> THEN << >>
    ELSE InsertSorted(SortBy(SubSeq(s, 1, Len(s) - 1)), s[Len(s)])

SortedHeights(nodes) == SortBy(HeightKeys(nodes))

\* Mutant of StartX: the row start is scaled by the current zoom.
StartXZoomed(n) ==
    (((-(n * horizontalSpacing)) \div 2 + horizontalSpacing \div 2) * zoom) \div 10

StartX(n) == (-(n * horizontalSpacing)) \div 2 + horizontalSpacing \div 2

\* The positions of one bucket: nodeIndex runs over the bucket in order.
RowEntries(bucket, heightIndex) ==
    [i \in 1..Len(bucket) |->
        [hash |-> bucket[i].hash,
         x |-> StartX(Len(bucket)) + (i - 1) * horizontalSpacing,
         y |-> heightIndex * verticalSpacing,
         node |-> bucket[i]]]

\* Every (hash, position) the two nested forEach loops produce, in order.
RECURSIVE PlacedFrom(_, _, _)
PlacedFrom(nodes, heights, k) ==
    IF k > Len(heights) THEN << >>
    ELSE RowEntries(NodesAtHeight(nodes, heights[k]), k - 1)
            \o PlacedFrom(nodes, heights, k + 1)

Placed(nodes) == PlacedFrom(nodes, SortedHeights(nodes), 1)

\* Map.prototype.set: a present key keeps its place and takes the new value.
MapSet(m, e) ==
    IF \E i \in 1..Len(m) : m[i].hash = e.hash
    THEN [i \in 1..Len(m) |-> IF m[i].hash = e.hash THEN e ELSE m[i]]
    ELSE Append(m, e)

RECURSIVE MapOf(_)
MapOf(entries) ==
    IF entries = << >> THEN << >>
    ELSE MapSet(MapOf(SubSeq(entries, 1, Len(entries) - 1)), entries[Len(entries)])

LayoutPositions(nodes) == MapOf(Placed(nodes))

RECURSIVE BoundsOf(_)
BoundsOf(entries) ==
    IF entries = << >>
    THEN [minX |-> Infinity, maxX |-> -Infinity, minY |-> 0, maxY |-> 0]
    ELSE LET b == BoundsOf(SubSeq(entries, 1, Len(entries) - 1))
             e == entries[Len(entries)]
         IN  [minX |-> Min(b.minX, e.x - 100),
              maxX |-> Max(b.maxX, e.x + 100),
              minY |-> b.minY,
              maxY |-> Max(b.maxY, e.y + 80)]

LayoutBounds(nodes) == BoundsOf(Placed(nodes))

MapKeys(m) == {m[i].hash : i \in 1..Len(m)}
MapHas(m, h) == h \in MapKeys(m)
MapGet(m, h) == m[CHOOSE i \in 1..Len(m) : m[i].hash = h]

(***************************************************************************)
(* The edges of the draw effect.                                           *)
(***************************************************************************)
Undefined == [kind |-> "undefined"]

\* nodePositions.get(hash)
MapLookup(m, h) == IF MapHas(m, h) THEN MapGet(m, h) ELSE Undefined

\* Mutant of SkipsEdge: only the from end is tested.
SkipsEdgeFromOnly(fromPos, toPos) == fromPos = Undefined

\* if (!fromPos || !toPos) return;
SkipsEdge(fromPos, toPos) == fromPos = Undefined \/ toPos = Undefined

\* The path stroked for one edge: moveTo(fromPos.x, fromPos.y + 70), then a
\* dashed quadratic curve for an uncle edge and a solid line otherwise.
EdgeStroke(edge, fromPos, toPos) ==
    [edge |-> edge,
     start |-> Point(fromPos.x, fromPos.y + 70),
     end |-> Point(toPos.x, toPos.y),
     style |-> IF edge.edge_type = "uncle" THEN "dashed curve" ELSE "solid line"]

\* dagData.edges.forEach(...): the strokes made, in order; reading .x of an
\* undefined position throws and ends the pass.
RECURSIVE DrawEdges(_, _)
DrawEdges(edges, m) ==
    IF edges = << >> THEN [error |-> FALSE, strokes |-> << >>]
    ELSE LET front == DrawEdges(SubSeq(edges, 1, Len(edges) - 1), m)
             edge == edges[Len(edges)]
             fromPos == MapLookup(m, edge.from)
             toPos == MapLookup(m, edge.to)
         IN  IF front.error THEN front
             ELSE IF SkipsEdge(fromPos, toPos) THEN front
             ELSE IF fromPos = Undefined \/ toPos = Undefined
             THEN [error |-> TRUE, strokes |-> front.strokes]
             ELSE [error |-> FALSE,
                   strokes |-> Append(front.strokes,
                                      EdgeStroke(edge, fromPos, toPos))]

\* The edge part of one run of the draw effect, which returns at once
\* without data or with an empty position map.
DrawFrameEdges(data, m) ==
    IF data = Null \/ m = << >> THEN [error |-> FALSE, strokes |-> << >>]
    ELSE DrawEdges(data.edges, m)

(***************************************************************************)
(* The nodes of the draw effect.                                           *)
(***************************************************************************)
FillSelected == "#f97316"
FillTip == "#22c55e"
FillUncle == "#a855f7"
FillMainChain == "#3b82f6"
FillOrphan == "#6b7280"

\* const isSelected = selectedNode?.hash === hash
IsSelected(sel, hash) == sel # Null /\ sel.hash = hash

\* const isTip = dagData.tip_hash === hash
IsTip(data, hash) == data.tip_hash = hash

\* Mutant of NodeFill: the uncle test comes before the tip test.
NodeFillUncleFirst(pos, data, sel) ==
    IF IsSelected(sel, pos.hash) THEN FillSelected
    ELSE IF pos.node.is_uncle THEN FillUncle
    ELSE IF IsTip(data, pos.hash) THEN FillTip
    ELSE IF pos.node.is_main_chain THEN FillMainChain
    ELSE FillOrphan

\* ctx.fillStyle of the node background, for one entry of the position map.
NodeFill(pos, data, sel) ==
    IF IsSelected(sel, pos.hash) THEN FillSelected
    ELSE IF IsTip(data, pos.hash) THEN FillTip
    ELSE IF pos.node.is_uncle THEN FillUncle
    ELSE IF pos.node.is_main_chain THEN FillMainChain
    ELSE FillOrphan

\* The rectangle filled for one entry: roundRect(pos.x - 80, pos.y, 160, 70, 8).
NodeRect(pos) == [left |-> pos.x - 80, top |-> pos.y, width |-> 160, height |-> 70]

\* nodePositions.forEach(...): the rectangles filled, in the order of the map.
DrawNodes(data, m, sel) ==
    [i \in 1..Len(m) |->
        [hash |-> m[i].hash, rect |-> NodeRect(m[i]), fill |-> NodeFill(m[i], data, sel)]]

\* The node part of one run of the draw effect, which returns at once
\* without data or with an empty position map.
DrawFrameNodes(data, m, sel) ==
    IF data = Null \/ m = << >> THEN << >> ELSE DrawNodes(data, m, sel)

(***************************************************************************)
(* The HTTP exchange and fetchChainDag.                                    *)
(***************************************************************************)
SampleNodesA ==
    << DagNode("a", 5, TRUE, FALSE), DagNode("b", 5, FALSE, TRUE),
       DagNode("c", 4, TRUE, FALSE) >>
SampleEdgesA == << DagEdge("c", "a", "parent"), DagEdge("b", "c", "uncle") >>
SampleA == DagResponse(SampleNodesA, SampleEdgesA, "a")

\* A window in which a side branch is one block ahead of the main-chain tip.
SampleNodesB ==
    << DagNode("d", 6, FALSE, FALSE), DagNode("a", 5, TRUE, FALSE) >>
SampleB == DagResponse(SampleNodesB, << DagEdge("d", "c", "parent") >>, "a")

SampleEmpty == DagResponse(<< >>, << >>, "a")

SampleResponses == {SampleA, SampleB, SampleEmpty}

HttpReply(net, status, body) == [net |-> net, status |-> status, body |-> body]

\* What the server and the network can answer to GET /api/chain/dag.
Replies ==
    {HttpReply("ok", 200, r) : r \in SampleResponses}
        \cup {HttpReply("ok", 500, OtherJson), HttpReply("ok", 500, NotJson),
              HttpReply("ok", 200, OtherJson), HttpReply("ok", 200, NotJson),
              HttpReply("failed", 0, NotJson)}

IsOkStatus(status) == status >= 200 /\ status <= 299
WellFormed(body) == body.kind = "dag"
GoodReply(reply) ==
    reply.net = "ok" /\ IsOkStatus(reply.status) /\ WellFormed(reply.body)

Resolved(v) == [ok |-> TRUE, data |-> v]
Rejected == [ok |-> FALSE, data |-> Null]

\* await fetch(url): rejects only when the request itself fails.
Fetch(reply) == IF reply.net = "ok" THEN Resolved(reply) ELSE Rejected

\* response.json(): rejects when the body is not JSON.
ResponseJson(reply) ==
    IF reply.body = NotJson THEN Rejected ELSE Resolved(reply.body)

fetchChainDag(reply) ==
    IF Fetch(reply).ok THEN ResponseJson(Fetch(reply).data) ELSE Rejected

(***************************************************************************)
(* The component.                                                          *)
(***************************************************************************)
dagVars ==
    << dagData, isLoading, error, selectedNode, zoom, limit, nodePositions,
       autoRefresh, panOffset, isPanning, lastMousePos, canvasBounds,
       mounted, interval, inflight, issued, pointer, settled >>

dbVars ==
    << columnFamilies, selectedCF, dbEntries, stats, page, totalEntries,
       hasMore, dbIsLoading, dbInflight, dbIssued >>

vars == << dagVars, dbVars >>

dataVars == << dagData, error, nodePositions, canvasBounds >>
viewVars == << zoom, panOffset >>
panVars == << isPanning, lastMousePos >>
fetchVars == << isLoading, inflight, issued >>
ctlVars == << limit, autoRefresh, interval, mounted >>

\* A request: its number, the limit it asks for and what triggered it.
Request(id, l, by) == [id |-> id, limit |-> l, by |-> by]
NoSettle == [settle |-> FALSE]

\* The history a resetView leaves: what the viewport was before it.
ResetFrom(z, pan) ==
    [settle |-> FALSE, reset |-> TRUE,
     zoomed |-> z # ZoomInitial, panned |-> pan # Point(0, 0)]

\* The history a jumpToTip leaves: whether the graph was panned before it.
TipFrom(pan) ==
    [settle |-> FALSE, reset |-> FALSE, tip |-> TRUE,
     panned |-> pan # Point(0, 0)]

Init ==
    /\ dagData = Null
    /\ isLoading = TRUE
    /\ error = NoError
    /\ selectedNode = Null
    /\ zoom = ZoomInitial
    /\ limit = InitialLimit
    /\ nodePositions = << >>
    /\ autoRefresh = FALSE
    /\ panOffset = Point(0, 0)
    /\ isPanning = FALSE
    /\ lastMousePos = Point(0, 0)
    /\ canvasBounds = [minX |-> 0, maxX |-> 0, minY |-> 0, maxY |-> 0]
    /\ mounted = TRUE
    /\ interval = NoTimer
    \* the mount effect has called loadDagData once
    /\ inflight = {Request(1, InitialLimit, "mount")}
    /\ issued = 1
    /\ pointer = [phase |-> "none", down |-> Point(0, 0), at |-> Point(0, 0),
                  before |-> Null]
    /\ settled = NoSettle
    /\ columnFamilies = << >>
    /\ selectedCF = NoCF
    /\ dbEntries = << >>
    /\ stats = Null
    /\ page = 1
    /\ totalEntries = 0
    /\ hasMore = FALSE
    /\ dbIsLoading = FALSE
    \* the mount effect has called loadColumnFamilies
    /\ dbInflight = {[id |-> 0, cf |-> "", page |-> 0, at |-> "families"]}
    /\ dbIssued = 0

\* Mutant of View: the error branch is taken whenever error is set.
ViewErrorFirst ==
    IF ~mounted THEN "none"
    ELSE IF isLoading /\ dagData = Null THEN "spinner"
    ELSE IF error # NoError THEN "error"
    ELSE "main"

\* Which of the three returns of the component is on screen.
View ==
    IF ~mounted THEN "none"
    ELSE IF isLoading /\ dagData = Null THEN "spinner"
    ELSE IF error # NoError /\ dagData = Null THEN "error"
    ELSE "main"

\* loadDagData up to its await: setIsLoading(true) and the request.
CallLoadDagData(l, by) ==
    /\ issued < MaxFetches
    /\ isLoading' = TRUE
    /\ inflight' = inflight \cup {Request(issued + 1, l, by)}
    /\ issued' = issued + 1

\* The auto-refresh effect: its cleanup, then setInterval when autoRefresh.
AutoRefreshEffect(auto, l) == IF ~auto THEN NoTimer ELSE l

\* Mutant of IntervalAfterUnmount: the effect returns no cleanup.
IntervalKept(iv) == iv

\* The cleanup of the auto-refresh effect at unmount: clearInterval.
IntervalAfterUnmount(iv) == NoTimer

ClickRefresh ==
    /\ View = "main"
    /\ CallLoadDagData(limit, "refresh")
    /\ settled' = NoSettle
    /\ UNCHANGED << dataVars, viewVars, panVars, ctlVars, selectedNode, pointer >>

    /\ UNCHANGED dbVars
ClickRetry ==
    /\ View = "error"
    /\ CallLoadDagData(limit, "retry")
    /\ settled' = NoSettle
    /\ UNCHANGED << dataVars, viewVars, panVars, ctlVars, selectedNode, pointer >>

    /\ UNCHANGED dbVars
\* The limit select: setLimit, then both effects that depend on loadDagData.
SetLimit(l) ==
    /\ View = "main"
    /\ l # limit
    /\ limit' = l
    /\ CallLoadDagData(l, "limit")
    /\ interval' = AutoRefreshEffect(autoRefresh, l)
    /\ settled' = NoSettle
    /\ UNCHANGED << dataVars, viewVars, panVars, autoRefresh, mounted,
                    selectedNode, pointer >>

    /\ UNCHANGED dbVars
ToggleAutoRefresh ==
    /\ View = "main"
    /\ autoRefresh' = ~autoRefresh
    /\ interval' = AutoRefreshEffect(~autoRefresh, limit)
    /\ settled' = NoSettle
    /\ UNCHANGED << dataVars, viewVars, panVars, fetchVars, limit, mounted,
                    selectedNode, pointer >>

    /\ UNCHANGED dbVars
\* The setInterval callback.
TimerTick ==
    /\ interval # NoTimer
    /\ CallLoadDagData(interval, "timer")
    /\ settled' = NoSettle
    /\ UNCHANGED << dataVars, viewVars, panVars, ctlVars, selectedNode, pointer >>

    /\ UNCHANGED dbVars
Unmount ==
    /\ mounted
    /\ mounted' = FALSE
    /\ interval' = IntervalAfterUnmount(interval)
    /\ settled' = NoSettle
    /\ UNCHANGED << dataVars, viewVars, panVars, fetchVars, limit, autoRefresh,
                    selectedNode, pointer >>

    /\ UNCHANGED dbVars
\* The layout effect throws on a body without nodes: dagData.nodes.forEach.
LayoutThrows(data) == data # Null /\ data.kind # "dag"

\* Mutant of PanAfterLayout: the layout effect leaves the pan alone.
PanKept(pan) == pan

\* The pan the layout effect leaves: setPanOffset({ x: 0, y: 0 }).
PanAfterLayout(pan) == Point(0, 0)

\* Mutant of SelectionAfterLoad: the selection follows the data, it is the
\* node of the same hash in the new window, or null.
SelectionReconciled(sel, data) ==
    IF sel = Null \/ data = Null \/ data.kind # "dag" THEN sel
    ELSE IF \E i \in 1..Len(data.nodes) : data.nodes[i].hash = sel.hash
    THEN data.nodes[CHOOSE i \in 1..Len(data.nodes) : data.nodes[i].hash = sel.hash]
    ELSE Null

\* selectedNode after a fetch has settled: neither loadDagData nor the layout
\* effect calls setSelectedNode.
SelectionAfterLoad(sel, data) == sel

\* loadDagData after its await, with the effects of the render that follows.
\* The continuation tests nothing before it calls setDagData / setError /
\* setIsLoading: it runs the same whether or not the view is still in the
\* tree. The layout effect runs only for a mounted view.
FetchSettle(req, reply) ==
    /\ req \in inflight
    /\ inflight' = inflight \ {req}
    /\ isLoading' = FALSE
    /\ settled' = [settle |-> TRUE, good |-> GoodReply(reply),
                   resolved |-> fetchChainDag(reply).ok, mounted |-> mounted,
                   pan |-> panOffset]
    /\ IF fetchChainDag(reply).ok
       THEN /\ dagData' = fetchChainDag(reply).data
            /\ error' = NoError
            /\ IF ~mounted \/ dagData' = Null
               THEN UNCHANGED << nodePositions, canvasBounds, panOffset,
                                 mounted, interval >>
               ELSE IF LayoutThrows(dagData')
               THEN \* an error thrown in an effect takes the tree down
                    /\ mounted' = FALSE
                    /\ interval' = IntervalAfterUnmount(interval)
                    /\ UNCHANGED << nodePositions, canvasBounds, panOffset >>
               ELSE /\ nodePositions' = LayoutPositions(dagData'.nodes)
                    /\ canvasBounds' = LayoutBounds(dagData'.nodes)
                    /\ panOffset' = PanAfterLayout(panOffset)
                    /\ UNCHANGED << mounted, interval >>
       ELSE /\ error' = ErrorMessage
            /\ UNCHANGED << dagData, nodePositions, canvasBounds, panOffset,
                            mounted, interval >>
    /\ selectedNode' = SelectionAfterLoad(selectedNode, dagData')
    /\ UNCHANGED << zoom, panVars, issued, limit, autoRefresh, pointer >>

    /\ UNCHANGED dbVars
\* One run of the draw effect that gets past its guard: the state values in
\* the closure of the render it belongs to, and what it paints from them.
Frame(data, m, sel, pan, z) ==
    [data |-> data, positions |-> m, pan |-> pan, zoom |-> z,
     strokes |-> DrawEdges(data.edges, m).strokes,
     nodes |-> DrawNodes(data, m, sel)]

\* if (!canvas || !dagData || nodePositions.size === 0) return;
DrawReturnsEarly(data, m) == data = Null \/ m = << >>

\* The frames painted while a resolved fetch settles on a mounted view. The
\* render that follows setDagData runs the layout effect and then the draw
\* effect, both with the values of that render: the draw effect sees the new
\* dagData and the nodePositions and panOffset of before. The setters called
\* by the layout effect cause a second render, whose draw effect sees the new
\* nodePositions and panOffset. A run that returns early paints nothing and
\* leaves the canvas as it is.
SettleFrames(data, mOld, mNew, sel, panOld, panNew, z) ==
    (IF DrawReturnsEarly(data, mOld) THEN << >>
     ELSE << Frame(data, mOld, sel, panOld, z) >>)
    \o (IF DrawReturnsEarly(data, mNew) THEN << >>
        ELSE << Frame(data, mNew, sel, panNew, z) >>)

(***************************************************************************)
(* Viewport controls and pointer handlers of the canvas.                   *)
(***************************************************************************)
PointerPoints ==
    {Point(300, 100), Point(304, 100), Point(300, 110), Point(400, 100)}

WheelDeltas == {-120, 0, 120, 240}

\* Mutant of Clamp: the lower limit is dropped.
ClampAbove(lo, hi, v) == Min(hi, v)

\* Math.max(0.2, Math.min(3, v))
Clamp(lo, hi, v) == Max(lo, Min(hi, v))

\* Mutant of WheelDelta: the step is proportional to the wheel delta.
WheelDeltaScaled(deltaY) == -((deltaY \div 120) * ZoomStep)

\* const delta = e.deltaY > 0 ? -0.1 : 0.1
WheelDelta(deltaY) == IF deltaY > 0 THEN -ZoomStep ELSE ZoomStep

handleWheel(deltaY) ==
    /\ View = "main"
    /\ zoom' = Clamp(ZoomMin, ZoomMax, zoom + WheelDelta(deltaY))
    /\ settled' = NoSettle
    /\ UNCHANGED << dataVars, panOffset, panVars, fetchVars, ctlVars,
                    selectedNode, pointer >>

    /\ UNCHANGED dbVars
ZoomOutButton ==
    /\ View = "main"
    /\ zoom' = Max(ZoomMin, zoom - ZoomStep)
    /\ settled' = NoSettle
    /\ UNCHANGED << dataVars, panOffset, panVars, fetchVars, ctlVars,
                    selectedNode, pointer >>

    /\ UNCHANGED dbVars
ZoomInButton ==
    /\ View = "main"
    /\ zoom' = Min(ZoomMax, zoom + ZoomStep)
    /\ settled' = NoSettle
    /\ UNCHANGED << dataVars, panOffset, panVars, fetchVars, ctlVars,
                    selectedNode, pointer >>

    /\ UNCHANGED dbVars
\* Mutant of resetView: setZoom(1) is left out.
resetPanOnly ==
    /\ View = "main"
    /\ panOffset' = Point(0, 0)
    /\ settled' = ResetFrom(zoom, panOffset)
    /\ UNCHANGED << dataVars, zoom, panVars, fetchVars, ctlVars, selectedNode,
                    pointer >>

    /\ UNCHANGED dbVars
resetView ==
    /\ View = "main"
    /\ zoom' = ZoomInitial
    /\ panOffset' = Point(0, 0)
    /\ settled' = ResetFrom(zoom, panOffset)
    /\ UNCHANGED << dataVars, panVars, fetchVars, ctlVars, selectedNode, pointer >>

    /\ UNCHANGED dbVars
\* Mutant of jumpToTip: the zoom is reset with the pan.
jumpToTipResetsZoom ==
    /\ View = "main"
    /\ zoom' = ZoomInitial
    /\ panOffset' = Point(0, 0)
    /\ settled' = TipFrom(panOffset)
    /\ UNCHANGED << dataVars, panVars, fetchVars, ctlVars, selectedNode, pointer >>
    /\ UNCHANGED dbVars

jumpToTip ==
    /\ View = "main"
    /\ panOffset' = Point(0, 0)
    /\ settled' = TipFrom(panOffset)
    /\ UNCHANGED << dataVars, zoom, panVars, fetchVars, ctlVars, selectedNode,
                    pointer >>

    /\ UNCHANGED dbVars
\* -(canvasBounds.maxY - canvas.height + 150) * zoom, zoom being in tenths
JumpToBottomY == (-((canvasBounds.maxY - CanvasHeight + 150) * zoom)) \div 10

jumpToBottom ==
    /\ View = "main"
    /\ panOffset' = Point(0, JumpToBottomY)
    /\ settled' = NoSettle
    /\ UNCHANGED << dataVars, zoom, panVars, fetchVars, ctlVars, selectedNode,
                    pointer >>

    /\ UNCHANGED dbVars
\* A press while no button is held; after a release on the canvas the click
\* is dispatched before any other pointer event.
handleMouseDown(p) ==
    /\ View = "main"
    /\ pointer.phase \in {"none", "left"}
    /\ isPanning' = TRUE
    /\ lastMousePos' = p
    /\ pointer' = [phase |-> "down", down |-> p, at |-> p, before |-> Null]
    /\ settled' = NoSettle
    /\ UNCHANGED << dataVars, viewVars, fetchVars, ctlVars, selectedNode >>

    /\ UNCHANGED dbVars
\* Mutant of PanBy: the delta is taken from the position of the mouse-down.
PanFromAnchor(pan, p, last) ==
    Point(pan.x + (p.x - pointer.down.x), pan.y + (p.y - pointer.down.y))

\* setPanOffset(prev => ({ x: prev.x + deltaX, y: prev.y + deltaY }))
PanBy(pan, p, last) == Point(pan.x + (p.x - last.x), pan.y + (p.y - last.y))

WithinPanBound(pan) == Abs(pan.x) <= MaxPan /\ Abs(pan.y) <= MaxPan

handleMouseMove(p) ==
    /\ View = "main"
    /\ pointer.phase # "up"
    /\ p # pointer.at
    /\ pointer' = [pointer EXCEPT !.at = p]
    /\ IF ~isPanning
       THEN UNCHANGED << panOffset, lastMousePos >>
       ELSE /\ WithinPanBound(PanBy(panOffset, p, lastMousePos))
            /\ panOffset' = PanBy(panOffset, p, lastMousePos)
            /\ lastMousePos' = p
    /\ settled' = NoSettle
    /\ UNCHANGED << dataVars, zoom, isPanning, fetchVars, ctlVars, selectedNode >>

    /\ UNCHANGED dbVars
\* The button is released over the canvas, at the pointer's position.
handleMouseUp ==
    /\ View = "main"
    /\ pointer.phase \in {"down", "left"}
    /\ isPanning' = FALSE
    /\ pointer' = [pointer EXCEPT !.phase = "up"]
    /\ settled' = NoSettle
    /\ UNCHANGED << dataVars, viewVars, lastMousePos, fetchVars, ctlVars,
                    selectedNode >>

    /\ UNCHANGED dbVars
\* Mutant of handleMouseLeave: setIsPanning(false) is left out.
handleMouseLeaveKeeps ==
    /\ View = "main"
    /\ pointer' = [pointer EXCEPT
                      !.phase = IF pointer.phase = "down" THEN "left" ELSE @]
    /\ settled' = NoSettle
    /\ UNCHANGED << dataVars, viewVars, panVars, fetchVars, ctlVars,
                    selectedNode >>

    /\ UNCHANGED dbVars
\* The pointer leaves the canvas; with the button held the gesture goes on
\* outside ("left") until the button is released there or back on the canvas.
handleMouseLeave ==
    /\ View = "main"
    /\ isPanning' = FALSE
    /\ pointer' = [pointer EXCEPT
                      !.phase = IF pointer.phase = "down" THEN "left" ELSE @]
    /\ settled' = NoSettle
    /\ UNCHANGED << dataVars, viewVars, lastMousePos, fetchVars, ctlVars,
                    selectedNode >>

    /\ UNCHANGED dbVars
\* The draw effect's transform, ctx.translate(canvas.width / 2 + panOffset.x,
\* 80 + panOffset.y) then ctx.scale(zoom, zoom): ten times the client point at
\* which the model point (mx, my) is drawn (zoom is in tenths).
RenderImage10(mx, my, pan, z) ==
    Point(10 * (RectLeft + HalfWidth + pan.x) + z * mx,
          10 * (RectTop + TopMargin + pan.y) + z * my)

\* The centre of the rectangle drawn for a position: roundRect(pos.x - 80,
\* pos.y, 160, 70, 8).
RectCentre(pos) == Point((pos.x - 80) + 160 \div 2, pos.y + 70 \div 2)

\* Math.abs(e.clientX - lastMousePos.x) > 5 || Math.abs(e.clientY - ...) > 5
ClickIsDrag(p, last) ==
    Abs(p.x - last.x) > DragThreshold \/ Abs(p.y - last.y) > DragThreshold

\* Mutant of HitsEntry: the rectangle tested is centred on (pos.x, pos.y).
HitsEntryCentred(pos, p, pan, z) ==
    LET dx == (p.x - RectLeft - HalfWidth - pan.x) * 10
        dy == (p.y - RectTop - TopMargin - pan.y) * 10
    IN  /\ dx >= (pos.x - 80) * z
        /\ dx <= (pos.x + 80) * z
        /\ dy >= (pos.y - 35) * z
        /\ dy <= (pos.y + 35) * z

\* The rectangle test of the hit loop, each side multiplied by zoom (> 0):
\* x = (clientX - rect.left - canvas.width / 2 - panOffset.x) / zoom, etc.
HitsEntry(pos, p, pan, z) ==
    LET dx == (p.x - RectLeft - HalfWidth - pan.x) * 10
        dy == (p.y - RectTop - TopMargin - pan.y) * 10
    IN  /\ dx >= (pos.x - 80) * z
        /\ dx <= (pos.x + 80) * z
        /\ dy >= pos.y * z
        /\ dy <= (pos.y + 70) * z

\* Mutant of HitTest: a click that hits nothing leaves the selection.
HitTestKeeps(m, p, pan, z) ==
    IF \E i \in 1..Len(m) : HitsEntry(m[i], p, pan, z)
    THEN m[CHOOSE i \in 1..Len(m) : HitsEntry(m[i], p, pan, z)].node
    ELSE selectedNode

\* for (const [hash, pos] of nodePositions): the first entry hit, else null.
HitTest(m, p, pan, z) ==
    IF \E i \in 1..Len(m) : HitsEntry(m[i], p, pan, z)
    THEN LET first == CHOOSE i \in 1..Len(m) :
                        /\ HitsEntry(m[i], p, pan, z)
                        /\ \A j \in 1..(i - 1) : ~HitsEntry(m[j], p, pan, z)
         IN  m[first].node
    ELSE Null

\* The click the browser dispatches after mouseup, at the same position.
handleCanvasClick ==
    /\ View = "main"
    /\ pointer.phase = "up"
    /\ pointer' = [pointer EXCEPT !.phase = "none", !.before = selectedNode]
    /\ IF ClickIsDrag(pointer.at, lastMousePos)
       THEN UNCHANGED selectedNode
       ELSE selectedNode' = HitTest(nodePositions, pointer.at, panOffset, zoom)
    /\ settled' = NoSettle
    /\ UNCHANGED << dataVars, viewVars, panVars, fetchVars, ctlVars >>

    /\ UNCHANGED dbVars
\* The close button of the details panel: setSelectedNode(null).
CloseDetails ==
    /\ View = "main"
    /\ selectedNode # Null
    /\ selectedNode' = Null
    /\ settled' = NoSettle
    /\ UNCHANGED << dataVars, viewVars, panVars, fetchVars, ctlVars, pointer >>

    /\ UNCHANGED dbVars
(***************************************************************************)
(* The database browser (DatabaseBrowser): column families, one page of    *)
(* entries and the stats of the selected column family.                    *)
(***************************************************************************)
pageSize == 50

\* What the server holds: the column families and their numbers of entries.
DbFamilies == << "share", "block" >>
DbTotalEntries(cf) == IF cf = "share" THEN 120 ELSE 30

NoEntries == << >>

\* The body of GET /db/cf/{cf}/stats.
StatsResponse(cf) == [column_family |-> cf, total_entries |-> DbTotalEntries(cf)]

\* The body of GET /db/cf/{cf}/entries?page=..&page_size=..; the entries of a
\* page are kept as one item that names the page they are.
EntriesResponse(cf, p) ==
    LET onPage == Max(0, Min(pageSize, DbTotalEntries(cf) - (p - 1) * pageSize))
    IN  [column_family |-> cf,
         entries |-> IF onPage = 0 THEN NoEntries
                     ELSE << [cf |-> cf, page |-> p, count |-> onPage] >>,
         page |-> p,
         total_entries |-> DbTotalEntries(cf),
         has_more |-> p * pageSize < DbTotalEntries(cf)]

\* One call of an async loader and the await it is at.
DbCall(id, cf, p, at) == [id |-> id, cf |-> cf, page |-> p, at |-> at]

\* const totalPages = Math.ceil(totalEntries / pageSize)
totalPages == (totalEntries + pageSize - 1) \div pageSize

\* loadData up to its first await, called with the selection of the render
\* it belongs to: setIsLoading(true) and the stats request.
loadData(cf, p) ==
    /\ dbIssued < MaxLoads
    /\ dbIsLoading' = TRUE
    /\ dbInflight' = dbInflight \cup {DbCall(dbIssued + 1, cf, p, "stats")}
    /\ dbIssued' = dbIssued + 1

\* The effect on [selectedCF, page]: it runs when either has changed.
SelectionEffect(cf, p) ==
    IF cf # selectedCF \/ p # page
    THEN loadData(cf, p)
    ELSE UNCHANGED << dbIsLoading, dbInflight, dbIssued >>

\* loadColumnFamilies after its await.
FamiliesSettle(ok) ==
    /\ \E call \in dbInflight : call.at = "families"
    /\ dbInflight' = {call \in dbInflight : call.at # "families"}
    /\ columnFamilies' = IF ok THEN DbFamilies ELSE columnFamilies
    /\ UNCHANGED << selectedCF, dbEntries, stats, dbIsLoading, page,
                    totalEntries, hasMore, dbIssued >>
    /\ UNCHANGED dagVars

\* A button of the sidebar: setSelectedCF(cfName), setPage(1), then the effect.
handleCFSelect(cfName) ==
    /\ \E i \in 1..Len(columnFamilies) : columnFamilies[i] = cfName
    /\ selectedCF' = cfName
    /\ page' = 1
    /\ SelectionEffect(cfName, page')
    /\ UNCHANGED << columnFamilies, dbEntries, stats, totalEntries, hasMore >>
    /\ UNCHANGED dagVars

PageButtons == {"First", "Previous", "Next", "Last"}

\* The page a pagination button sets.
PageTarget(button) ==
    CASE button = "First" -> 1
      [] button = "Previous" -> Max(1, page - 1)
      [] button = "Next" -> Min(totalPages, page + 1)
      [] button = "Last" -> totalPages

\* The button is disabled at the end it leads to.
PageButtonDisabled(button) ==
    IF button \in {"First", "Previous"} THEN page = 1 ELSE page = totalPages

\* The pagination bar is rendered for a selection with more than one page.
ClickPageButton(button) ==
    /\ selectedCF # NoCF
    /\ totalPages > 1
    /\ ~PageButtonDisabled(button)
    /\ page' = PageTarget(button)
    /\ SelectionEffect(selectedCF, page')
    /\ UNCHANGED << columnFamilies, selectedCF, dbEntries, stats, totalEntries,
                    hasMore >>
    /\ UNCHANGED dagVars

\* The Refresh button of the header: loadData() for the selection on screen.
ClickDbRefresh ==
    /\ selectedCF # NoCF
    /\ loadData(selectedCF, page)
    /\ UNCHANGED << columnFamilies, selectedCF, dbEntries, stats, page,
                    totalEntries, hasMore >>
    /\ UNCHANGED dagVars

\* loadData after the awaits of the stats request: setStats and the entries
\* request, or the catch and finally blocks when the request failed.
StatsSettle(call, ok) ==
    /\ call \in dbInflight
    /\ call.at = "stats"
    /\ IF ok
       THEN /\ stats' = StatsResponse(call.cf)
            /\ dbInflight' = (dbInflight \ {call})
                                \cup {DbCall(call.id, call.cf, call.page, "entries")}
            /\ UNCHANGED dbIsLoading
       ELSE /\ dbIsLoading' = FALSE
            /\ dbInflight' = dbInflight \ {call}
            /\ UNCHANGED stats
    /\ UNCHANGED << columnFamilies, selectedCF, dbEntries, page, totalEntries,
                    hasMore, dbIssued >>
    /\ UNCHANGED dagVars

\* loadData after the awaits of the entries request.
EntriesSettle(call, ok) ==
    /\ call \in dbInflight
    /\ call.at = "entries"
    /\ dbInflight' = dbInflight \ {call}
    /\ dbIsLoading' = FALSE
    /\ IF ok
       THEN /\ dbEntries' = EntriesResponse(call.cf, call.page).entries
            /\ totalEntries' = EntriesResponse(call.cf, call.page).total_entries
            /\ hasMore' = EntriesResponse(call.cf, call.page).has_more
       ELSE UNCHANGED << dbEntries, totalEntries, hasMore >>
    /\ UNCHANGED << columnFamilies, selectedCF, stats, page, dbIssued >>
    /\ UNCHANGED dagVars

(***************************************************************************)
(* Specifications.                                                         *)
(***************************************************************************)
\* The fetch life cycle: triggers, settlements, timer, unmount.
NextFetch ==
    \/ ClickRefresh
    \/ ClickRetry
    \/ \E l \in LimitOptions : SetLimit(l)
    \/ ToggleAutoRefresh
    \/ TimerTick
    \/ Unmount
    \/ \E req \in inflight, reply \in Replies : FetchSettle(req, reply)

SpecFetch == Init /\ [][NextFetch]_vars

\* The pointer gestures on a loaded graph.
NextPointer ==
    \/ \E req \in inflight, reply \in Replies : FetchSettle(req, reply)
    \/ \E p \in PointerPoints : handleMouseDown(p)
    \/ \E p \in PointerPoints : handleMouseMove(p)
    \/ handleMouseUp
    \/ handleMouseLeave
    \/ handleCanvasClick
    \/ CloseDetails

SpecPointer == Init /\ [][NextPointer]_vars

\* Gestures on and next to the centre of node a of a loaded graph, which is
\* drawn at (290, 115) at the initial viewport, and on the centre of node b.
HitReplies == {HttpReply("ok", 200, SampleA)}
HitPoints == {Point(290, 115), Point(298, 115), Point(306, 115), Point(510, 115)}

NextHit ==
    \/ \E req \in inflight, reply \in HitReplies : FetchSettle(req, reply)
    \/ \E p \in HitPoints : handleMouseDown(p)
    \/ \E p \in HitPoints : handleMouseMove(p)
    \/ handleMouseUp
    \/ handleMouseLeave
    \/ handleCanvasClick

SpecHit == Init /\ [][NextHit]_vars

\* Data refreshes interleaved with the viewport controls; the exploration
\* sends at most ViewFetches requests and keeps zoom within ViewZoomSpan
\* steps of its initial value. A pan gesture ends with the pointer leaving
\* the canvas, so that no click follows it.
ViewFetches == 2
ViewZoomSpan == 1
ViewPoints == {Point(300, 100), Point(300, 110)}
ViewReplies == {HttpReply("ok", 200, SampleA), HttpReply("ok", 500, NotJson)}
ViewLimits == {20, 50}

NextView ==
    \/ ClickRefresh /\ issued' <= ViewFetches
    \/ \E l \in ViewLimits : SetLimit(l) /\ issued' <= ViewFetches
    \/ ToggleAutoRefresh
    \/ TimerTick /\ issued' <= ViewFetches
    \/ \E req \in inflight, reply \in ViewReplies : FetchSettle(req, reply)
    \/ \E d \in WheelDeltas : handleWheel(d) /\ Abs(zoom' - ZoomInitial) <= ViewZoomSpan
    \/ ZoomOutButton /\ Abs(zoom' - ZoomInitial) <= ViewZoomSpan
    \/ ZoomInButton /\ Abs(zoom' - ZoomInitial) <= ViewZoomSpan
    \/ resetView
    \/ jumpToTip
    \/ jumpToBottom
    \/ \E p \in ViewPoints : handleMouseDown(p)
    \/ \E p \in ViewPoints : handleMouseMove(p)
    \/ handleMouseLeave

SpecView == Init /\ [][NextView]_vars

\* Selection clicks interleaved with refreshes that replace the window.
SelectReplies ==
    {HttpReply("ok", 200, SampleA), HttpReply("ok", 200, SampleB),
     HttpReply("failed", 0, NotJson)}
SelectPoints == {Point(300, 100), Point(400, 100)}

NextSelect ==
    \/ ClickRefresh
    \/ \E req \in inflight, reply \in SelectReplies : FetchSettle(req, reply)
    \/ \E p \in SelectPoints : handleMouseDown(p)
    \/ handleMouseUp
    \/ handleCanvasClick
    \/ CloseDetails

SpecSelect == Init /\ [][NextSelect]_vars

\* The zoom controls over the whole zoom range, with the jumps.
NextZoom ==
    \/ \E req \in inflight, reply \in ViewReplies : FetchSettle(req, reply)
    \/ \E d \in WheelDeltas : handleWheel(d)
    \/ ZoomOutButton
    \/ ZoomInButton
    \/ resetView
    \/ jumpToTip
    \/ jumpToBottom

SpecZoom == Init /\ [][NextZoom]_vars

\* Wheel events during and between pan gestures and clicks.
NextWheel ==
    \/ \E req \in inflight, reply \in HitReplies : FetchSettle(req, reply)
    \/ \E d \in WheelDeltas : handleWheel(d)
    \/ \E p \in ViewPoints : handleMouseDown(p)
    \/ \E p \in ViewPoints : handleMouseMove(p)
    \/ handleMouseUp
    \/ handleCanvasClick

SpecWheel == Init /\ [][NextWheel]_vars

\* Refreshes that fail or succeed while the graph on screen is zoomed (within
\* ViewZoomSpan steps), panned and has a node selected.
FailReplies ==
    {HttpReply("ok", 200, SampleA), HttpReply("ok", 500, NotJson),
     HttpReply("failed", 0, NotJson)}

NextFail ==
    \/ ClickRefresh
    \/ \E req \in inflight, reply \in FailReplies : FetchSettle(req, reply)
    \/ \E d \in WheelDeltas : handleWheel(d) /\ Abs(zoom' - ZoomInitial) <= ViewZoomSpan
    \/ \E p \in ViewPoints : handleMouseDown(p)
    \/ \E p \in ViewPoints : handleMouseMove(p)
    \/ handleMouseUp
    \/ handleCanvasClick

SpecFail == Init /\ [][NextFail]_vars

\* Refreshes that replace the window by another one or by the empty window,
\* with selection clicks in between.
FrameReplies ==
    {HttpReply("ok", 200, SampleA), HttpReply("ok", 200, SampleB),
     HttpReply("ok", 200, SampleEmpty)}

NextFrame ==
    \/ ClickRefresh
    \/ \E req \in inflight, reply \in FrameReplies : FetchSettle(req, reply)
    \/ \E p \in SelectPoints : handleMouseDown(p)
    \/ handleMouseUp
    \/ handleCanvasClick

SpecFrame == Init /\ [][NextFrame]_vars

\* Requests issued while others are in flight, every one of them answered
\* with a window, in any order of arrival.
StaleReplies == {HttpReply("ok", 200, SampleA), HttpReply("ok", 200, SampleB)}

NextStale ==
    \/ ClickRefresh
    \/ \E l \in ViewLimits : SetLimit(l)
    \/ ToggleAutoRefresh
    \/ TimerTick
    \/ \E req \in inflight, reply \in StaleReplies : FetchSettle(req, reply)

SpecStale == Init /\ [][NextStale]_vars

\* The database browser: column-family selections, page changes and
\* refreshes while earlier loads are still at an await, every request
\* succeeding or failing.
NextDb ==
    \/ \E ok \in BOOLEAN : FamiliesSettle(ok)
    \/ \E i \in 1..Len(DbFamilies) : handleCFSelect(DbFamilies[i])
    \/ \E button \in PageButtons : ClickPageButton(button)
    \/ ClickDbRefresh
    \/ \E call \in dbInflight, ok \in BOOLEAN : StatsSettle(call, ok)
    \/ \E call \in dbInflight, ok \in BOOLEAN : EntriesSettle(call, ok)

SpecDb == Init /\ [][NextDb]_vars

\* The jump buttons pressed at any moment of pan gestures, clicks and
\* wheel events on a loaded graph.
NextJump ==
    \/ \E req \in inflight, reply \in HitReplies : FetchSettle(req, reply)
    \/ \E d \in WheelDeltas : handleWheel(d)
    \/ \E p \in ViewPoints : handleMouseDown(p)
    \/ \E p \in ViewPoints : handleMouseMove(p)
    \/ handleMouseUp
    \/ handleCanvasClick
    \/ jumpToTip
    \/ jumpToBottom

SpecJump == Init /\ [][NextJump]_vars

\* Clicks on, just inside and just outside the sides of the rectangle of node
\* a, which at the initial viewport is drawn from (210, 80) to (370, 150), at
\* every zoom the wheel reaches.
RectXs == {209, 210, 370, 371, 430}
RectYs == {44, 79, 80, 150, 151}
RectPoints == {Point(px, py) : px \in RectXs, py \in RectYs}

NextRect ==
    \/ \E req \in inflight, reply \in HitReplies : FetchSettle(req, reply)
    \/ \E d \in WheelDeltas : handleWheel(d)
    \/ \E p \in RectPoints : handleMouseDown(p)
    \/ handleMouseUp
    \/ handleCanvasClick

SpecRect == Init /\ [][NextRect]_vars

\* Selection clicks on windows in which node a carries every combination of
\* the is_main_chain and is_uncle flags and is or is not the tip; (290, 115)
\* is on node a at the initial viewport, (400, 115) on the background.
FillWindows ==
    {DagResponse(<< DagNode("a", 5, main, uncle), DagNode("b", 5, TRUE, FALSE) >>,
                 << >>, tip) :
        main \in BOOLEAN, uncle \in BOOLEAN, tip \in {"a", "b"}}
FillReplies == {HttpReply("ok", 200, r) : r \in FillWindows}
FillPoints == {Point(290, 115), Point(400, 115)}

NextFill ==
    \/ ClickRefresh
    \/ \E req \in inflight, reply \in FillReplies : FetchSettle(req, reply)
    \/ \E p \in FillPoints : handleMouseDown(p)
    \/ handleMouseUp
    \/ handleCanvasClick

SpecFill == Init /\ [][NextFill]_vars

\* The layout on every window of at most MaxNodes nodes with pairwise
\* distinct hashes and heights in 0..MaxHeight.
RECURSIVE SeqsUpTo(_, _)
SeqsUpTo(S, n) ==
    IF n = 0 THEN {<< >>}
    ELSE LET shorter == SeqsUpTo(S, n - 1)
         IN  shorter \cup {Append(q, e) : q \in {t \in shorter : Len(t) = n - 1}, e \in S}

DistinctHashes(nodes) ==
    \A i, j \in 1..Len(nodes) : nodes[i].hash = nodes[j].hash => i = j

LayoutNodes == {DagNode(h, ht, TRUE, FALSE) : h \in Hashes, ht \in 0..MaxHeight}

NodeLists == {q \in SeqsUpTo(LayoutNodes, MaxNodes) : DistinctHashes(q)}

NextLayout ==
    \E req \in inflight, nodes \in NodeLists, tip \in Hashes :
        FetchSettle(req, HttpReply("ok", 200, DagResponse(nodes, << >>, tip)))

SpecLayout == Init /\ [][NextLayout]_vars

\* The draw effect on every edge list of at most MaxEdges edges between
\* three hashes, of which each window holds two.
RenderHashes == {"a", "c", "d"}
RenderEdges ==
    {DagEdge(f, t, ty) : f \in RenderHashes, t \in RenderHashes,
                         ty \in {"parent", "uncle"}}
RenderWindows == {SampleNodesA, SampleNodesB, << >>}

NextRender ==
    \E req \in inflight, nodes \in RenderWindows, n \in 0..MaxEdges :
        \E edges \in [1..n -> RenderEdges] :
            FetchSettle(req, HttpReply("ok", 200,
                                       DagResponse(nodes, edges, "a")))

SpecRender == Init /\ [][NextRender]_vars

(***************************************************************************)
(* Claims.                                                                 *)
(***************************************************************************)
\* The distance test of the claim: the down and up positions of a gesture
\* differ by more than the threshold in either axis.
GestureMoved(down, up) ==
    Abs(up.x - down.x) > DragThreshold \/ Abs(up.y - down.y) > DragThreshold

\* C1: the click that ends a gesture leaves selectedNode alone when the down
\* and up positions differ by more than 5 px in either axis, and otherwise
\* sets selectedNode to the result of the hit-test at the click position.
C1_DragNeverSelects ==
    [][handleCanvasClick =>
          IF GestureMoved(pointer.down, pointer.at)
          THEN selectedNode' = selectedNode
          ELSE selectedNode' = HitTest(nodePositions, pointer.at, panOffset, zoom)]_vars

\* A step that settles a request.
IsSettle == \E req \in inflight, reply \in Replies : FetchSettle(req, reply)
IsGoodSettle ==
    \E req \in inflight, reply \in Replies :
        FetchSettle(req, reply) /\ GoodReply(reply)
IsBadSettle ==
    \E req \in inflight, reply \in Replies :
        FetchSettle(req, reply) /\ ~GoodReply(reply)

IsFailedSettle ==
    \E req \in inflight, reply \in Replies :
        FetchSettle(req, reply) /\ ~fetchChainDag(reply).ok

IsZoomOp ==
    \/ \E d \in WheelDeltas : handleWheel(d)
    \/ ZoomInButton
    \/ ZoomOutButton
    \/ resetView

IsPanOp ==
    \/ resetView
    \/ jumpToTip
    \/ jumpToBottom
    \/ \E p \in PointerPoints : handleMouseMove(p) /\ isPanning

\* C2 (as stated): zoom and panOffset keep their values when a fetch settles
\* and replaces dagData; only resetView, jumpToTip, jumpToBottom, wheel, the
\* zoom buttons and panning change them.
C2_ViewPersists ==
    [][/\ IsSettle => zoom' = zoom /\ panOffset' = panOffset
       /\ zoom' # zoom => IsZoomOp
       /\ panOffset' # panOffset => IsPanOp]_vars

\* C2 (amended): zoom persists across data refreshes, panOffset does not: a
\* fetch that resolves with a DAG response while the view is mounted resets
\* panOffset to (0,0), a failed fetch leaves both alone; besides that only
\* resetView, jumpToTip, jumpToBottom, wheel, the zoom buttons and panning
\* change them.
C2_ZoomPersistsPanResets ==
    [][/\ IsSettle => zoom' = zoom
       /\ (IsGoodSettle /\ mounted) => panOffset' = Point(0, 0)
       /\ IsFailedSettle => panOffset' = panOffset
       /\ zoom' # zoom => IsZoomOp
       /\ panOffset' # panOffset =>
             \/ IsPanOp
             \/ IsGoodSettle /\ mounted]_vars

\* A refresh has just replaced the data of a view that had been zoomed; the
\* pan it had is gone.
C2_Witness ==
    /\ settled.settle /\ settled.good /\ settled.mounted
    /\ issued >= 2
    /\ zoom # ZoomInitial
    /\ settled.pan # Point(0, 0)
    /\ panOffset = Point(0, 0)

\* C3: whenever the reply is not a 2xx reply with a well-formed body, the
\* call rejects: loadDagData sets the error message and dagData keeps its
\* value.
C3_BadReplyRejected ==
    [][IsBadSettle => error' = ErrorMessage /\ dagData' = dagData]_vars

\* Where the error message and the Retry button are rendered.
ErrorDisplayed == View = "error"

\* C4: after every failed fetch of a mounted view the error message and the
\* retry action are on screen, whatever dagData holds.
C4_FailureDisplayed ==
    (mounted /\ settled.settle /\ ~settled.resolved) => ErrorDisplayed

\* C5: at most one DAG fetch is in flight at any time.
C5_SingleFlight == Cardinality(inflight) <= 1

C7_TimerOnlyWhileMountedAndAuto ==
    [][TimerTick => mounted /\ autoRefresh]_vars

\* The view was unmounted with auto-refresh on while a request the timer
\* had issued was still in flight.
C7_Witness ==
    /\ ~mounted
    /\ autoRefresh
    /\ \E r \in inflight : r.by = "timer"

LaidOut == mounted /\ dagData.kind = "dag"

EntriesOf(h) == {k \in 1..Len(nodePositions) : nodePositions[k].hash = h}

\* C8: for a non-empty node list the position map has as many entries as
\* the list has nodes, and every node's hash is a key exactly once.
C8_PositionsCoverNodes ==
    (LaidOut /\ dagData.nodes # << >>) =>
        /\ Len(nodePositions) = Len(dagData.nodes)
        /\ \A i \in 1..Len(dagData.nodes) :
              Cardinality(EntriesOf(dagData.nodes[i].hash)) = 1

\* A window of three nodes, two of them at the same height, is laid out.
C8_Witness ==
    /\ LaidOut /\ settled.settle
    /\ Len(dagData.nodes) = 3
    /\ dagData.nodes[1].height = dagData.nodes[3].height
    /\ dagData.nodes[2].height # dagData.nodes[1].height
    /\ Len(nodePositions) = 3

\* The distinct heights of the window that are greater than h.
HeightsAbove(h) ==
    {g \in {dagData.nodes[i].height : i \in 1..Len(dagData.nodes)} : g > h}

\* C9: equal heights have equal y, a strictly greater height a strictly
\* smaller y; y is 120 times the index of the height among the distinct
\* heights in descending order.
C9_HeightOrder ==
    LaidOut =>
        \A i, j \in 1..Len(nodePositions) :
            LET a == nodePositions[i]
                b == nodePositions[j]
            IN  /\ a.node.height = b.node.height => a.y = b.y
                /\ a.node.height > b.node.height => a.y < b.y
                /\ a.y = verticalSpacing * Cardinality(HeightsAbove(a.node.height))

\* Three rows, given in neither ascending nor descending order.
C9_Witness ==
    /\ LaidOut /\ settled.settle
    /\ Len(dagData.nodes) = 3
    /\ dagData.nodes[1].height < dagData.nodes[2].height
    /\ dagData.nodes[3].height < dagData.nodes[1].height
    /\ nodePositions[3].y = 2 * verticalSpacing

\* C10: the node whose hash is tip_hash, when it is in the window, is in
\* the top row.
C10_TipOnTop ==
    (LaidOut /\ MapHas(nodePositions, dagData.tip_hash)) =>
        MapGet(nodePositions, dagData.tip_hash).y = 0

\* The client point p is the image, under the render transform, of the centre
\* of the rectangle drawn for pos.
AtCentreImage(p, pos, pan, z) ==
    Point(10 * p.x, 10 * p.y)
        = RenderImage10(RectCentre(pos).x, RectCentre(pos).y, pan, z)

\* C11: a click (a press and a release no further apart than the movement
\* threshold) at the image, under the render transform, of the centre of a
\* node's drawn rectangle sets selectedNode to that node, whatever zoom and
\* panOffset are.
C11_CentreClickSelects ==
    [][\A i \in 1..Len(nodePositions) :
          (/\ handleCanvasClick
           /\ ~GestureMoved(pointer.down, pointer.at)
           /\ AtCentreImage(pointer.at, nodePositions[i], panOffset, zoom))
          => selectedNode' = nodePositions[i].node]_vars

\* C12: after any sequence of wheel events, zoom button clicks and resets
\* zoom is within [0.2, 3.0]; a wheel event with deltaY > 0 at zoom 1.0 gives
\* 0.9, and a scroll down never takes zoom below 0.2.
C12_ZoomWithinLimits ==
    /\ [](zoom >= ZoomMin /\ zoom <= ZoomMax)
    /\ [][\A d \in WheelDeltas :
             (handleWheel(d) /\ d > 0) =>
                 /\ zoom = ZoomInitial => zoom' = ZoomInitial - ZoomStep
                 /\ zoom' >= ZoomMin
                 /\ zoom' <= zoom]_vars

\* Scroll-down has been repeated down to the lower limit.
C12_Witness == View = "main" /\ zoom = ZoomMin

\* C13: a wheel event moves zoom by one step of 0.1, down when deltaY > 0 and
\* up otherwise, whatever the magnitude of deltaY, then clamps it; it leaves
\* isPanning, panOffset, lastMousePos and selectedNode alone.
C13_WheelOneStep ==
    [][\A d \in WheelDeltas :
          handleWheel(d) =>
              LET target == IF d > 0 THEN zoom - ZoomStep ELSE zoom + ZoomStep
              IN  /\ zoom' = IF target < ZoomMin THEN ZoomMin
                             ELSE IF target > ZoomMax THEN ZoomMax
                             ELSE target
                  /\ UNCHANGED << isPanning, panOffset, lastMousePos,
                                  selectedNode >>]_vars

\* Zoom has been changed, which here only the wheel does, in the middle of a
\* pan gesture that has moved the graph, with a node selected.
C13_Witness ==
    /\ zoom # ZoomInitial
    /\ isPanning
    /\ panOffset # Point(0, 0)
    /\ lastMousePos # pointer.down
    /\ selectedNode # Null

\* C14: from every state the explored pans, wheel events, zoom buttons, jumps
\* and refreshes reach, resetView yields zoom = 1 and panOffset = (0,0).
C14_ResetRestores ==
    [][resetView => zoom' = ZoomInitial /\ panOffset' = Point(0, 0)]_vars

\* resetView has just acted on a view that was both zoomed and panned.
C14_Witness ==
    /\ settled = ResetFrom(ZoomInitial + ZoomStep, Point(0, 10))
    /\ issued >= 2
    /\ zoom = ZoomInitial
    /\ panOffset = Point(0, 0)

\* C15: the pointer state has two states: isPanning is true exactly when the
\* most recent of mouse-down, mouse-up and mouse-leave is a mouse-down (the
\* phase "down" of the gesture history); a mouse-move while it is false
\* changes neither panOffset nor lastMousePos.
C15_TwoStatePointer ==
    /\ [](isPanning <=> pointer.phase = "down")
    /\ [][\A p \in PointerPoints :
             (handleMouseMove(p) /\ ~isPanning) =>
                 UNCHANGED << panOffset, lastMousePos >>]_vars

\* After a press and a pan the pointer has left the canvas with the button
\* held and moved on: the view is Idle and the recorded position is still
\* the one of the last move made while Panning.
C15_Witness ==
    /\ pointer.phase = "left"
    /\ ~isPanning
    /\ panOffset # Point(0, 0)
    /\ pointer.at # lastMousePos
    /\ lastMousePos # pointer.down

\* C16: pan deltas are incremental. A mouse-down at p0 records p0 and leaves
\* panOffset alone, and every mouse-move at p while Panning records p and
\* adds p minus the previously recorded position, so that panOffset minus
\* the recorded position is the same after every move: after moves at
\* p1..pn, panOffset is its value at mouse-down plus (pn - p0).
C16_PanIncremental ==
    [][/\ \A p \in PointerPoints :
             handleMouseDown(p) => lastMousePos' = p /\ panOffset' = panOffset
       /\ \A p \in PointerPoints :
             (handleMouseMove(p) /\ isPanning) =>
                 /\ lastMousePos' = p
                 /\ panOffset'.x - p.x = panOffset.x - lastMousePos.x
                 /\ panOffset'.y - p.y = panOffset.y - lastMousePos.y]_vars

\* A pan gesture that began with the graph already displaced has moved it
\* further: the pan at its mouse-down, panOffset less the displacement of the
\* pointer since then, was not the origin.
C16_Witness ==
    /\ pointer.phase = "down"
    /\ isPanning
    /\ lastMousePos # pointer.down
    /\ lastMousePos.x # pointer.down.x
    /\ panOffset.y # 0
    /\ PanBy(panOffset, pointer.down, lastMousePos) # Point(0, 0)

\* A value is one node of a window.
IsDagNode(v) == DOMAIN v = {"hash", "height", "is_main_chain", "is_uncle"}

\* C17: a fetch that settles, whatever it brings, leaves selectedNode the
\* node value it was; selectedNode is null or one node at any time.
C17_SelectionSurvivesRefresh ==
    /\ [][IsSettle => selectedNode' = selectedNode]_vars
    /\ [](selectedNode = Null \/ IsDagNode(selectedNode))

\* A refresh has just replaced the window by one that does not hold the
\* selected node any more.
C17_Witness ==
    /\ settled.settle /\ settled.good /\ settled.mounted
    /\ issued >= 2
    /\ selectedNode # Null
    /\ nodePositions # << >>
    /\ ~MapHas(nodePositions, selectedNode.hash)

\* Ten times the model-space point of the click at p lies in the rectangle
\* of pos scaled by zoom in tenths: pos.x - 80 <= x <= pos.x + 80 and
\* pos.y <= y <= pos.y + 70.
InRectangle(pos, p, pan, z) ==
    LET x10 == (p.x - RectLeft - HalfWidth - pan.x) * 10
        y10 == (p.y - RectTop - TopMargin - pan.y) * 10
    IN  /\ (pos.x - 80) * z <= x10 /\ x10 <= (pos.x + 80) * z
        /\ pos.y * z <= y10 /\ y10 <= (pos.y + 70) * z

BothPositioned(e) ==
    MapHas(nodePositions, e.from) /\ MapHas(nodePositions, e.to)

\* C19: the draw effect completes without error for every edge list, and the
\* edges it strokes are exactly, and in order, the edges both of whose
\* endpoint hashes have an entry in the position map.
C19_DanglingEdgesSkipped ==
    LaidOut =>
        LET pass == DrawFrameEdges(dagData, nodePositions)
        IN  /\ ~pass.error
            /\ [i \in 1..Len(pass.strokes) |-> pass.strokes[i].edge]
                   = SelectSeq(dagData.edges, BothPositioned)

\* Of two edges the first leads from a positioned node to a hash outside the
\* window and is skipped, the second joins two positioned nodes and is drawn.
C19_Witness ==
    /\ LaidOut /\ settled.settle
    /\ Len(dagData.edges) = 2
    /\ MapHas(nodePositions, dagData.edges[1].from)
    /\ ~MapHas(nodePositions, dagData.edges[1].to)
    /\ BothPositioned(dagData.edges[2])
    /\ dagData.edges[2].from # dagData.edges[2].to
    /\ Len(DrawFrameEdges(dagData, nodePositions).strokes) = 1

ScreenY10(my, pan, z) == RenderImage10(0, my, pan, z).y - 10 * RectTop

\* C21: after jumpToBottom the bottom edge of the bounding box, maxY, is drawn
\* within the canvas, 0 <= 80 + panOffset.y + zoom * maxY <= canvas.height,
\* at every zoom; the action leaves panOffset.x and zoom as they were.
C21_BottomEdgeVisible ==
    [][jumpToBottom =>
          /\ ScreenY10(canvasBounds.maxY, panOffset', zoom') >= 0
          /\ ScreenY10(canvasBounds.maxY, panOffset', zoom') <= 10 * CanvasHeight
          /\ panOffset'.x = panOffset.x
          /\ zoom' = zoom]_vars

\* A number of the program is finite: neither Infinity nor -Infinity.
IsFinite(v) == v > -Infinity /\ v < Infinity

\* C22: an empty node list yields an empty position map and zero-area bounds:
\* maxX - minX = 0 and maxY - minY = 0, all four bounds finite.
C22_EmptyWindowZeroBounds ==
    (LaidOut /\ dagData.nodes = << >>) =>
        /\ nodePositions = << >>
        /\ IsFinite(canvasBounds.minX) /\ IsFinite(canvasBounds.maxX)
        /\ IsFinite(canvasBounds.minY) /\ IsFinite(canvasBounds.maxY)
        /\ canvasBounds.maxX - canvasBounds.minX = 0
        /\ canvasBounds.maxY - canvasBounds.minY = 0

\* The indices of the nodes of the window at the height of its k-th node.
SameHeightAs(k) ==
    {j \in 1..Len(dagData.nodes) : dagData.nodes[j].height = dagData.nodes[k].height}

\* C23: within a height bucket the nodes stand left to right in fetch order,
\* centred on x = 0 with 220 between centres: the node that is the i-th
\* (from 0) of the n nodes of its height in the fetched list has
\* x = 220 * i - 110 * (n - 1).
C23_RowInFetchOrder ==
    LaidOut =>
        \A k \in 1..Len(dagData.nodes) :
            LET i == Cardinality({j \in SameHeightAs(k) : j < k})
                n == Cardinality(SameHeightAs(k))
                pos == MapLookup(nodePositions, dagData.nodes[k].hash)
            IN  /\ pos # Undefined
                /\ pos.node = dagData.nodes[k]
                /\ pos.x = horizontalSpacing * i - (horizontalSpacing \div 2) * (n - 1)

\* A row of three nodes whose fetch order is neither ascending nor descending
\* in the hash has been laid out: the first fetched is leftmost.
C23_Witness ==
    /\ LaidOut /\ settled.settle
    /\ Len(dagData.nodes) = 3
    /\ Cardinality(SameHeightAs(1)) = 3
    /\ dagData.nodes[1].hash = "c"
    /\ dagData.nodes[2].hash = "a"
    /\ dagData.nodes[3].hash = "b"
    /\ MapGet(nodePositions, "c").x = -horizontalSpacing
    /\ MapGet(nodePositions, "a").x = 0
    /\ MapGet(nodePositions, "b").x = horizontalSpacing

\* C24: the fill colour of a node follows the strict precedence selected >
\* tip (hash = tip_hash) > is_uncle > is_main_chain > orphan, for every
\* combination of the four flags: a node that is tip and uncle is tip-coloured
\* and a selected tip is selection-coloured.
C24_FillPrecedence ==
    LaidOut =>
        LET drawn == DrawFrameNodes(dagData, nodePositions, selectedNode)
        IN  /\ Len(drawn) = Len(nodePositions)
            /\ \A i \in 1..Len(drawn) :
                  LET node == nodePositions[i].node
                      selected == selectedNode # Null /\ selectedNode.hash = node.hash
                      tip == dagData.tip_hash = node.hash
                  IN  /\ selected => drawn[i].fill = FillSelected
                      /\ (~selected /\ tip) => drawn[i].fill = FillTip
                      /\ (~selected /\ ~tip /\ node.is_uncle) =>
                             drawn[i].fill = FillUncle
                      /\ (~selected /\ ~tip /\ ~node.is_uncle /\ node.is_main_chain) =>
                             drawn[i].fill = FillMainChain
                      /\ (~selected /\ ~tip /\ ~node.is_uncle /\ ~node.is_main_chain) =>
                             drawn[i].fill = FillOrphan

\* The tip of the window, an uncle on the main chain, had been selected and a
\* click on the background has just cleared the selection: the frame fills it
\* with the tip colour.
C24_Witness ==
    /\ LaidOut
    /\ dagData.tip_hash = "a"
    /\ nodePositions[1].hash = "a"
    /\ nodePositions[1].node.is_uncle /\ nodePositions[1].node.is_main_chain
    /\ selectedNode = Null
    /\ pointer.before # Null /\ pointer.before.hash = "a"
    /\ DrawFrameNodes(dagData, nodePositions, selectedNode)[1].fill = FillTip

\* Ten times the model-space point of a click at the client point p.
ModelPoint10(p, pan) ==
    Point((p.x - RectLeft - HalfWidth - pan.x) * 10,
          (p.y - RectTop - TopMargin - pan.y) * 10)

\* The model-space point of the click at p lies in the rectangle the render
\* pass fills for pos (both sides of each comparison multiplied by zoom).
InDrawnRect(pos, p, pan, z) ==
    LET r == NodeRect(pos)
        q == ModelPoint10(p, pan)
    IN  /\ r.left * z <= q.x /\ q.x <= (r.left + r.width) * z
        /\ r.top * z <= q.y /\ q.y <= (r.top + r.height) * z

\* The same for the rectangle of the drawn size whose centre is (pos.x, pos.y).
InCentredRect(pos, p, pan, z) ==
    LET r == NodeRect(pos)
        q == ModelPoint10(p, pan)
    IN  /\ 2 * Abs(q.x - pos.x * z) <= r.width * z
        /\ 2 * Abs(q.y - pos.y * z) <= r.height * z

\* C25 (as stated): the hit-test reports a node exactly when the point lies in
\* the fixed-size rectangle centred at the node's position (x, y).
C25_HitIsCentredRect ==
    [][(handleCanvasClick /\ ~ClickIsDrag(pointer.at, lastMousePos)) =>
          \A i \in 1..Len(nodePositions) :
              selectedNode' = nodePositions[i].node
                  <=> InCentredRect(nodePositions[i], pointer.at, panOffset, zoom)]_vars

\* C25 (amended): the hit-test reports a node exactly when the point lies in
\* the rectangle the render pass draws for it, which is centred on the node's
\* position horizontally and hangs from it vertically: x - 80 <= px <= x + 80
\* and y <= py <= y + 70.
C25_HitIsDrawnRect ==
    [][(handleCanvasClick /\ ~ClickIsDrag(pointer.at, lastMousePos)) =>
          \A i \in 1..Len(nodePositions) :
              /\ selectedNode' = nodePositions[i].node
                    <=> InDrawnRect(nodePositions[i], pointer.at, panOffset, zoom)
              /\ NodeRect(nodePositions[i]).left + NodeRect(nodePositions[i]).width \div 2
                    = nodePositions[i].x
              /\ NodeRect(nodePositions[i]).top = nodePositions[i].y]_vars

\* A click on the bottom edge of the drawn rectangle of a node, outside the
\* rectangle centred on its position, has selected the node.
C25_Witness ==
    /\ pointer.phase = "none"
    /\ zoom = ZoomInitial
    /\ pointer.at.y = 150
    /\ selectedNode # Null
    /\ \E i \in 1..Len(nodePositions) :
          /\ selectedNode = nodePositions[i].node
          /\ InDrawnRect(nodePositions[i], pointer.at, panOffset, zoom)
          /\ ~InCentredRect(nodePositions[i], pointer.at, panOffset, zoom)

\* C26: jumpToTip sets panOffset to (0,0) and leaves zoom, selectedNode,
\* dagData and the pointer state (isPanning, lastMousePos) unchanged.
C26_JumpToTipFrame ==
    [][jumpToTip =>
          /\ panOffset' = Point(0, 0)
          /\ UNCHANGED << zoom, selectedNode, dagData, isPanning, lastMousePos >>]_vars

\* jumpToTip has just acted in the middle of a pan gesture that had moved a
\* zoomed graph with a node selected: the pan is back at the origin, zoom,
\* selection and the recorded pointer position are as the gesture left them.
C26_Witness ==
    /\ settled = TipFrom(Point(0, 10))
    /\ pointer.phase = "down"
    /\ isPanning
    /\ lastMousePos # pointer.down
    /\ pointer.at = lastMousePos
    /\ panOffset = Point(0, 0)
    /\ zoom # ZoomInitial
    /\ selectedNode # Null

\* A step that settles a request whose fetchChainDag call resolved.
IsResolvedSettle ==
    \E req \in inflight, reply \in Replies :
        FetchSettle(req, reply) /\ fetchChainDag(reply).ok

\* C27: a fetch that fails changes only error and isLoading: dagData,
\* nodePositions, canvasBounds, zoom, panOffset and selectedNode keep their
\* values and a graph loaded before stays on screen; the next fetch that
\* succeeds sets error back to null.
C27_FailureKeepsGraph ==
    [][/\ IsFailedSettle =>
             /\ UNCHANGED << dagData, nodePositions, canvasBounds, zoom,
                             panOffset, selectedNode, limit, autoRefresh,
                             isPanning, lastMousePos, mounted >>
             /\ error' = ErrorMessage
             /\ isLoading' = FALSE
             /\ (mounted /\ dagData # Null) => View' = "main"
       /\ IsResolvedSettle => error' = NoError]_vars

\* A refresh has just failed on a graph that is zoomed and panned and has a
\* node selected: the error is recorded and the graph is still on screen.
C27_Witness ==
    /\ settled.settle /\ ~settled.resolved /\ settled.mounted
    /\ error = ErrorMessage
    /\ View = "main"
    /\ dagData = SampleA
    /\ Len(nodePositions) = 3
    /\ zoom # ZoomInitial
    /\ panOffset # Point(0, 0)
    /\ selectedNode # Null

\* The frames painted by the step, when it settles a resolved fetch on a
\* mounted view.
FramesOfStep ==
    SettleFrames(dagData', nodePositions, nodePositions', selectedNode,
                 panOffset, panOffset', zoom)

\* C28: every frame the draw effect paints uses the position map computed
\* from the dagData whose edges and tip_hash it draws, and after a refresh
\* that returns an empty node list the last frame painted shows no node of
\* the previous graph.
C28_FrameFromOneResponse ==
    [][(IsResolvedSettle /\ mounted /\ dagData'.kind = "dag") =>
          /\ \A i \in 1..Len(FramesOfStep) :
                FramesOfStep[i].positions
                    = LayoutPositions(FramesOfStep[i].data.nodes)
          /\ (dagData'.nodes = << >> /\ FramesOfStep # << >>) =>
                FramesOfStep[Len(FramesOfStep)].nodes = << >>]_vars

\* A request issued after req has settled already.
NewerSettled(req) ==
    \E id \in (req.id + 1)..issued : \A r \in inflight : r.id # id

\* C29: a response to an older request that arrives after a newer request
\* has been answered does not overwrite dagData, so that once no request is
\* in flight dagData is the response to the request issued last.
C29_LatestRequestWins ==
    [][\A req \in inflight, reply \in StaleReplies :
          (FetchSettle(req, reply) /\ NewerSettled(req)) => dagData' = dagData]_vars

\* The entries on screen are those of page p of column family cf.
EntriesBelong(e, cf, p) ==
    \A i \in 1..Len(e) : e[i].cf = cf /\ e[i].page = p

\* The stats on screen are those of column family cf.
StatsBelong(st, cf) == st = Null \/ st.column_family = cf

\* C30: in the database browser, once loading has settled the entries and
\* stats on screen belong to the selected column family and page; selecting a
\* column family resets page to 1; a response for another column family or
\* page that arrives late replaces neither the entries nor the stats that
\* the current selection has loaded.
C30_DbShowsSelection ==
    /\ []((~dbIsLoading /\ selectedCF # NoCF) =>
             /\ EntriesBelong(dbEntries, selectedCF, page)
             /\ StatsBelong(stats, selectedCF))
    /\ [][\A i \in 1..Len(DbFamilies) :
             handleCFSelect(DbFamilies[i]) => page' = 1]_vars
    /\ [][\A call \in dbInflight :
             (/\ EntriesSettle(call, TRUE)
              /\ dbEntries # NoEntries
              /\ EntriesBelong(dbEntries, selectedCF, page)
              /\ ~(call.cf = selectedCF /\ call.page = page))
             => dbEntries' = dbEntries]_vars
    /\ [][\A call \in dbInflight :
             (/\ StatsSettle(call, TRUE)
              /\ stats # Null
              /\ StatsBelong(stats, selectedCF)
              /\ call.cf # selectedCF)
             => stats' = stats]_vars

====
